---- MODULE Spec2Model ----
(***************************************************************************)
(* Landsat_Harmonic_Regression.js as a state machine.                      *)
(*                                                                         *)
(* The script is one straight line of statements.  Each statement that     *)
(* builds a value later statements read is one action; pc is the           *)
(* statement the script is at.  The inputs (the harmonic count, the        *)
(* Landsat scenes over two pixels, and the vector the platform's           *)
(* least-squares reducer returns for a determined system) are chosen in    *)
(* Init from bounded families.                                             *)
(*                                                                         *)
(* Numbers.  Pixel values are fixed point: the integer n stands for        *)
(* n / Scale.  Angles are counted in units of pi/4 (so Math.PI is 4        *)
(* units), which makes the values of cos and sin at whole months and of    *)
(* atan2 on the axes and diagonals exact.  A pixel value is a tuple:       *)
(* <<>> is a masked (no data) pixel, <<n>> the value n, and <<lo, hi>> a   *)
(* value known to lie in [lo, hi] (only atan2 off the axes and diagonals   *)
(* produces a proper interval).                                            *)
(*                                                                         *)
(* Band names are sequences of one-character strings, so that the regular  *)
(* expressions the script hands to select() can be matched character by    *)
(* character.                                                              *)
(***************************************************************************)
EXTENDS Integers, Sequences, FiniteSets, TLC

VARIABLES
    harmonics,                 \* line 37: cycles per year to model
    landsat8Sr,                \* line 30: the scenes, in date order
    solver,                    \* what linearRegression returns when determined
    pc,                        \* the statement the script is at
    harmonicLandsat,           \* line 122
    harmonicTrend,             \* line 132
    harmonicTrendCoefficients, \* lines 137, 153, 159, 164 (reassigned)
    fittedHarmonic,            \* line 142
    filterCollection,          \* line 179
    yearlyComposites,          \* lines 194, 197
    outImage,                  \* line 201
    output                     \* lines 240, 241

vars == <<harmonics, landsat8Sr, solver, pc, harmonicLandsat, harmonicTrend,
          harmonicTrendCoefficients, fittedHarmonic, filterCollection,
          yearlyComposites, outImage, output>>

----------------------------------------------------------------------------
(* Bounds of the input families.                                           *)

MaxHarmonics == 11
MaxScenes == 5
MaxFitHarmonics == 1

----------------------------------------------------------------------------
(* Fixed point and generic helpers.                                        *)

Scale == 3 * 10000

Pixels == {"p", "q"}

NoData == <<>>

Val(n) == <<n>>

IsData(v) == Len(v) > 0

Abs(n) == IF n < 0 THEN -n ELSE n

Sign(n) == IF n < 0 THEN -1 ELSE 1

\* Integer division rounding toward zero, as a cast from float to int does.
TruncDiv(a, b) == Sign(a) * Sign(b) * (Abs(a) \div Abs(b))

\* a * b / Scale without leaving 32 bits: both factors are split at Scale.
MulFix(a, b) ==
    LET s  == Sign(a) * Sign(b)
        x  == Abs(a)
        y  == Abs(b)
        x1 == x \div Scale
        x0 == x % Scale
        y1 == y \div Scale
        y0 == y % Scale
    IN  s * (x1 * y1 * Scale + x1 * y0 + x0 * y1 + (x0 * y0) \div Scale)

RECURSIVE IsqrtIn(_, _, _)
IsqrtIn(n, lo, hi) ==
    IF lo >= hi THEN lo
    ELSE LET mid == (lo + hi + 1) \div 2
         IN  IF mid * mid <= n THEN IsqrtIn(n, mid, hi)
             ELSE IsqrtIn(n, lo, mid - 1)

Isqrt(n) == IsqrtIn(n, 0, 46340)

RECURSIVE SumSeq(_)
SumSeq(s) == IF s = <<>> THEN 0 ELSE Head(s) + SumSeq(Tail(s))

RECURSIVE Flatten(_)
Flatten(ss) == IF ss = <<>> THEN <<>> ELSE Head(ss) \o Flatten(Tail(ss))

\* The elements of a set of integers, ascending.
RECURSIVE SortedSeq(_)
SortedSeq(S) ==
    IF S = {} THEN <<>>
    ELSE LET m == CHOOSE x \in S : \A y \in S : x <= y
         IN  <<m>> \o SortedSeq(S \ {m})

----------------------------------------------------------------------------
(* Strings.                                                                *)

DigitChar(d) ==
    CASE d = 0 -> "0" [] d = 1 -> "1" [] d = 2 -> "2" [] d = 3 -> "3"
      [] d = 4 -> "4" [] d = 5 -> "5" [] d = 6 -> "6" [] d = 7 -> "7"
      [] d = 8 -> "8" [] d = 9 -> "9"

\* The decimal text of a natural number: what String.cat(Number.int()) appends.
RECURSIVE Decimal(_)
Decimal(n) ==
    IF n < 10 THEN <<DigitChar(n)>>
    ELSE Decimal(n \div 10) \o <<DigitChar(n % 10)>>

\* Whether a select() pattern matches a whole band name; "." is any character.
Matches(pat, name) ==
    /\ Len(pat) = Len(name)
    /\ \A i \in DOMAIN pat : pat[i] = "." \/ pat[i] = name[i]

cosBase == <<"c", "o", "s", "_">>
sinBase == <<"s", "i", "n", "_">>
ampBase == <<"a", "m", "p", "l", "i", "t", "u", "d", "e", "_">>
phaseBase == <<"p", "h", "a", "s", "e", "_">>
constantName == <<"c", "o", "n", "s", "t", "a", "n", "t">>
tName == <<"t">>
fittedName == <<"f", "i", "t", "t", "e", "d">>
meanName == <<"N", "D", "V", "I", "_", "m", "e", "a", "n">>
qaPixelName == <<"Q", "A", "_", "P", "I", "X", "E", "L">>
qaRadsatName == <<"Q", "A", "_", "R", "A", "D", "S", "A", "T">>
b4Name == <<"S", "R", "_", "B", "4">>
b5Name == <<"S", "R", "_", "B", "5">>

dependent == <<"N", "D", "V", "I">>

harmonicFrequencies(k) == [i \in 1..k |-> i]

getNames(base, list) == [j \in DOMAIN list |-> base \o Decimal(list[j])]

cosNames(k) == getNames(cosBase, harmonicFrequencies(k))
sinNames(k) == getNames(sinBase, harmonicFrequencies(k))
ampNames(k) == getNames(ampBase, harmonicFrequencies(k))
phaseNames(k) == getNames(phaseBase, harmonicFrequencies(k))

\* The columns with the constant and the time band exchanged.
independentsSwapped(k) == <<tName, constantName>> \o cosNames(k) \o sinNames(k)

independents(k) == <<constantName, tName>> \o cosNames(k) \o sinNames(k)

----------------------------------------------------------------------------
(* Images.  An image is [ok, names, vals, date]: vals[x] is pixel x's      *)
(* value in each band, date is <<year, month, day>> or <<>>.  ok = FALSE   *)
(* is an image whose computation raised an error; every operation on it    *)
(* raises the same error.                                                  *)

Img(names, vals, date) == [ok |-> TRUE, names |-> names, vals |-> vals, date |-> date]

Err == [ok |-> FALSE, names |-> <<>>, vals |-> [x \in Pixels |-> <<>>], date |-> <<>>]

NoDate == <<>>

\* The positions of the bands a pattern matches, in band order.
MatchIdx(img, pat) == SortedSeq({i \in DOMAIN img.names : Matches(pat, img.names[i])})

\* Image.select(patterns): for each pattern in turn the bands it matches; a
\* pattern that matches no band is an error.
Select(img, pats) ==
    IF ~img.ok THEN Err
    ELSE IF \E j \in DOMAIN pats : MatchIdx(img, pats[j]) = <<>> THEN Err
    ELSE LET idx == Flatten([j \in DOMAIN pats |-> MatchIdx(img, pats[j])])
         IN  Img([j \in DOMAIN idx |-> img.names[idx[j]]],
                 [x \in Pixels |-> [j \in DOMAIN idx |-> img.vals[x][idx[j]]]],
                 img.date)

\* Image.rename(names): as many names as bands, or an error.
Rename(img, names) ==
    IF ~img.ok \/ Len(names) # Len(img.names) THEN Err
    ELSE Img(names, img.vals, img.date)

\* Image.select(patterns, newNames).
SelectAs(img, pats, newNames) == Rename(Select(img, pats), newNames)

\* Image.addBands(src): the bands of src after those of img.
AddBands(img, src) ==
    IF ~img.ok \/ ~src.ok THEN Err
    ELSE Img(img.names \o src.names,
             [x \in Pixels |-> img.vals[x] \o src.vals[x]], img.date)

\* An image of one band with the same value at every pixel.
ConstantImage(name, n) == Img(<<name>>, [x \in Pixels |-> <<Val(n)>>], NoDate)

\* How a binary image operation pairs the bands of its operands: pairwise in
\* order when the counts agree, a single band against every band of the other,
\* and an error otherwise.  The result is the sequence of <<i, j>> pairs.
BandPairs(a, b) ==
    IF Len(a.names) = Len(b.names) THEN [i \in DOMAIN a.names |-> <<i, i>>]
    ELSE IF Len(b.names) = 1 THEN [i \in DOMAIN a.names |-> <<i, 1>>]
    ELSE IF Len(a.names) = 1 THEN [i \in DOMAIN b.names |-> <<1, i>>]
    ELSE <<>>

PairNames(a, b) == IF Len(a.names) >= Len(b.names) THEN a.names ELSE b.names

CanPair(a, b) ==
    /\ a.ok /\ b.ok
    /\ Len(a.names) = Len(b.names) \/ Len(a.names) = 1 \/ Len(b.names) = 1

MultiplyVal(u, v) ==
    IF ~IsData(u) \/ ~IsData(v) THEN NoData ELSE Val(MulFix(u[1], v[1]))

\* Image.multiply(image2).
Multiply(a, b) ==
    IF ~CanPair(a, b) THEN Err
    ELSE LET pr == BandPairs(a, b)
         IN  Img(PairNames(a, b),
                 [x \in Pixels |->
                    [n \in DOMAIN pr |-> MultiplyVal(a.vals[x][pr[n][1]], b.vals[x][pr[n][2]])]],
                 a.date)

HypotVal(u, v) ==
    IF ~IsData(u) \/ ~IsData(v) THEN NoData
    ELSE Val(Isqrt(u[1] * u[1] + v[1] * v[1]))

\* Image.hypot(image2).
Hypot(a, b) ==
    IF ~CanPair(a, b) THEN Err
    ELSE LET pr == BandPairs(a, b)
         IN  Img(PairNames(a, b),
                 [x \in Pixels |->
                    [n \in DOMAIN pr |-> HypotVal(a.vals[x][pr[n][1]], b.vals[x][pr[n][2]])]],
                 a.date)

\* The angle of the vector (x, y) in units of pi/4, as the pair of its lower and
\* upper bound: equal on the axes and diagonals, one unit apart elsewhere.
\* The angle of (0, 0) is 0.
UpperAngle(x, y) ==
    IF y = 0 THEN IF x >= 0 THEN <<0, 0>> ELSE <<4, 4>>
    ELSE IF x > 0 THEN
        IF y < x THEN <<0, 1>> ELSE IF y = x THEN <<1, 1>> ELSE <<1, 2>>
    ELSE IF x = 0 THEN <<2, 2>>
    ELSE IF y > -x THEN <<2, 3>> ELSE IF y = -x THEN <<3, 3>> ELSE <<3, 4>>

Angle(x, y) ==
    IF y >= 0 THEN UpperAngle(x, y)
    ELSE LET a == UpperAngle(x, -y) IN <<-a[2], -a[1]>>

\* left.atan2(right) is the angle of the 2D vector [x, y] with x the left
\* operand and y the right one.
Atan2Val(u, v) ==
    IF ~IsData(u) \/ ~IsData(v) THEN NoData
    ELSE LET a == Angle(u[1], v[1])
         IN  IF a[1] = a[2] THEN Val(a[1] * Scale)
             ELSE <<a[1] * Scale, a[2] * Scale>>

\* Image.atan2(image2).
Atan2(a, b) ==
    IF ~CanPair(a, b) THEN Err
    ELSE LET pr == BandPairs(a, b)
         IN  Img(PairNames(a, b),
                 [x \in Pixels |->
                    [n \in DOMAIN pr |-> Atan2Val(a.vals[x][pr[n][1]], b.vals[x][pr[n][2]])]],
                 a.date)

\* Math.PI, in units of pi/4.
MathPI == 4 * Scale

\* a / b for a divisor that is a whole number of units.
DivFix(a, b) == IF b % Scale = 0 THEN a \div (b \div Scale) ELSE (a * Scale) \div b

\* Image.unitScale(low, high): (v - low) / (high - low), on each bound of v.
UnitScale(img, low, high) ==
    IF ~img.ok THEN Err
    ELSE Img(img.names,
             [x \in Pixels |->
                [n \in DOMAIN img.names |->
                   [e \in DOMAIN img.vals[x][n] |-> DivFix(img.vals[x][n][e] - low, high - low)]]],
             img.date)

\* Image.multiply(n) for a whole number n: the product, in fixed point.
MultiplyBy(img, n) ==
    IF ~img.ok THEN Err
    ELSE Img(img.names,
             [x \in Pixels |->
                [b \in DOMAIN img.names |->
                   [e \in DOMAIN img.vals[x][b] |-> img.vals[x][b][e] * n]]],
             img.date)

\* A cast to a 16 bit signed integer: the fraction is dropped (toward zero) and
\* a value outside the type's range becomes the nearest end of the range.
ShortMin == -32768
ShortMax == 32767

Clamp(n) == IF n < ShortMin THEN ShortMin ELSE IF n > ShortMax THEN ShortMax ELSE n

\* A cast that rounds down instead of toward zero.
ToShortValFloor(n) == Clamp(n \div Scale) * Scale

ToShortVal(n) == Clamp(TruncDiv(n, Scale)) * Scale

\* Image.toShort().
ToShort(img) ==
    IF ~img.ok THEN Err
    ELSE Img(img.names,
             [x \in Pixels |->
                [b \in DOMAIN img.names |->
                   [e \in DOMAIN img.vals[x][b] |-> ToShortVal(img.vals[x][b][e])]]],
             img.date)

\* Image.reduce('sum'): the sum over the bands that have data; no data when
\* none has.
ReduceSum(img) ==
    IF ~img.ok THEN Err
    ELSE Img(<<<<"s", "u", "m">>>>,
             [x \in Pixels |->
                LET have == {b \in DOMAIN img.names : IsData(img.vals[x][b])}
                    hs   == SortedSeq(have)
                IN  <<IF have = {} THEN NoData
                      ELSE Val(SumSeq([j \in DOMAIN hs |-> img.vals[x][hs[j]][1]]))>>],
             img.date)

----------------------------------------------------------------------------
(* Collections.  A collection is a sequence of images, or CErr when its    *)
(* computation raised an error.                                            *)

GoodCollection(c) == \A i \in DOMAIN c : c[i].ok

\* Dates are compared as ee.Date values: by year, then month, then day.
DateOrd(d) == d[1] * 10000 + d[2] * 100 + d[3]

\* A date range that includes its end.
InRangeClosed(d, start, end) == DateOrd(start) <= DateOrd(d) /\ DateOrd(d) <= DateOrd(end)

\* ImageCollection.filterDate(start, end): start inclusive, end exclusive.
InRange(d, start, end) == DateOrd(start) <= DateOrd(d) /\ DateOrd(d) < DateOrd(end)

FilterDate(c, start, end) ==
    IF ~GoodCollection(c) THEN <<Err>>
    ELSE LET idx == SortedSeq({i \in DOMAIN c : InRange(c[i].date, start, end)})
         IN  [j \in DOMAIN idx |-> c[idx[j]]]

\* The values with data that pixel x has in band b over the images of c.
BandData(c, b, x) ==
    LET idx == SortedSeq({i \in DOMAIN c : IsData(c[i].vals[x][b])})
    IN  [j \in DOMAIN idx |-> c[idx[j]].vals[x][b][1]]

\* A sequence of integers in ascending order (insertion sort).
RECURSIVE Insert(_, _)
Insert(v, s) ==
    IF s = <<>> THEN <<v>>
    ELSE IF v <= Head(s) THEN <<v>> \o s
    ELSE <<Head(s)>> \o Insert(v, Tail(s))

RECURSIVE Sort(_)
Sort(s) == IF s = <<>> THEN <<>> ELSE Insert(Head(s), Sort(Tail(s)))

\* The median reducer: the middle value, or the mean of the two middle ones;
\* no data when there is no input.
MedianOf(s) ==
    LET t == Sort(s)
        n == Len(t)
    IN  IF n = 0 THEN NoData
        ELSE IF n % 2 = 1 THEN Val(t[(n + 1) \div 2])
        ELSE Val((t[n \div 2] + t[n \div 2 + 1]) \div 2)

\* The mean reducer.
MeanOf(s) == IF s = <<>> THEN NoData ELSE Val(SumSeq(s) \div Len(s))

\* ImageCollection.median(): band by band and pixel by pixel over the inputs
\* that have data; the bands are those of the images, and an empty collection
\* gives an image without bands.
Median(c) ==
    IF ~GoodCollection(c) THEN Err
    ELSE IF c = <<>> THEN Img(<<>>, [x \in Pixels |-> <<>>], NoDate)
    ELSE Img(c[1].names,
             [x \in Pixels |-> [b \in DOMAIN c[1].names |-> MedianOf(BandData(c, b, x))]],
             NoDate)

\* ImageCollection.reduce('mean'), the output bands named <band>_mean.
Mean(c) ==
    IF ~GoodCollection(c) THEN Err
    ELSE IF c = <<>> THEN Img(<<>>, [x \in Pixels |-> <<>>], NoDate)
    ELSE Img([b \in DOMAIN c[1].names |-> c[1].names[b] \o <<"_", "m", "e", "a", "n">>],
             [x \in Pixels |-> [b \in DOMAIN c[1].names |-> MeanOf(BandData(c, b, x))]],
             NoDate)

\* ImageCollection.select(patterns): Image.select on every image.
SelectEach(c, pats) == [i \in DOMAIN c |-> Select(c[i], pats)]

----------------------------------------------------------------------------
(* Lines 59-116: the functions mapped over the scenes.                     *)
(* A scene's bands are SR_B4, SR_B5, QA_PIXEL and QA_RADSAT, holding the   *)
(* sensor's whole numbers (not fixed point).                               *)

sceneNames == <<b4Name, b5Name, qaPixelName, qaRadsatName>>

RECURSIVE BitAnd(_, _)
BitAnd(a, b) ==
    IF a = 0 \/ b = 0 THEN 0
    ELSE (a % 2) * (b % 2) + 2 * BitAnd(a \div 2, b \div 2)

\* parseInt(text, 2).
RECURSIVE ParseBinary(_)
ParseBinary(text) ==
    IF text = <<>> THEN 0
    ELSE 2 * ParseBinary(SubSeq(text, 1, Len(text) - 1))
         + (IF text[Len(text)] = "1" THEN 1 ELSE 0)

\* The flags without the cloud shadow bit.
qaBitsFour == ParseBinary(<<"1", "1", "1", "1">>)

qaBits == ParseBinary(<<"1", "1", "1", "1", "1">>)

\* multiply(0.0000275).add(-0.2) on a sensor count, into fixed point.
ScaleOptical(dn) == (dn * 275 * 3) \div 1000 - (2 * Scale) \div 10

opticalPattern == <<"S", "R", "_", "B", ".">>

\* Whether maskL8sr keeps pixel x of a scene.
KeptByMask(image, x) ==
    LET qa     == Select(image, <<qaPixelName>>).vals[x][1][1]
        radsat == Select(image, <<qaRadsatName>>).vals[x][1][1]
    IN  BitAnd(qa, qaBits) = 0 /\ radsat = 0

maskL8sr(image) ==
    Img(image.names,
        [x \in Pixels |->
           IF ~KeptByMask(image, x) THEN [b \in DOMAIN image.names |-> NoData]
           ELSE [b \in DOMAIN image.names |->
                   IF Matches(opticalPattern, image.names[b])
                   THEN Val(ScaleOptical(image.vals[x][b][1]))
                   ELSE image.vals[x][b]]],
        image.date)

\* Image.normalizedDifference([first, second]): (first - second) / (first +
\* second), masked where an input is masked or negative (or the sum is zero).
NormalizedDifferenceVal(u, v) ==
    IF ~IsData(u) \/ ~IsData(v) THEN NoData
    ELSE IF u[1] < 0 \/ v[1] < 0 \/ u[1] + v[1] = 0 THEN NoData
    ELSE Val(((u[1] - v[1]) * Scale) \div (u[1] + v[1]))

addNDVI(image) ==
    LET first  == Select(image, <<b5Name>>)
        second == Select(image, <<b4Name>>)
        nd     == Img(<<dependent>>,
                      [x \in Pixels |->
                         <<NormalizedDifferenceVal(first.vals[x][1], second.vals[x][1])>>],
                      image.date)
    IN  AddBands(image, nd)

addConstant(image) == AddBands(image, ConstantImage(constantName, Scale))

\* Whole months since 1970-01-01: date.difference(ee.Date('1970-01-01'), 'year')
\* is a twelfth of it (the day of the month is below the model's resolution).
MonthsSinceEpoch(date) == (date[1] - 1970) * 12 + (date[2] - 1)

\* years.multiply(2 * Math.PI).
timeRadians(date) == (MonthsSinceEpoch(date) * (2 * MathPI)) \div 12

addTime(image) == AddBands(image, ConstantImage(tName, timeRadians(image.date)))

\* cos of the twelfths of a turn, in fixed point.
CosTwelfth(n) ==
    CASE n = 0 -> Scale            [] n = 1 -> 25981  [] n = 2 -> Scale \div 2
      [] n = 3 -> 0                [] n = 4 -> -(Scale \div 2) [] n = 5 -> -25981
      [] n = 6 -> -Scale           [] n = 7 -> -25981 [] n = 8 -> -(Scale \div 2)
      [] n = 9 -> 0                [] n = 10 -> Scale \div 2   [] n = 11 -> 25981

\* The twelfths of a turn in an angle (the time band holds whole twelfths).
Twelfths(angle) == (angle \div ((2 * MathPI) \div 12)) % 12

CosFix(angle) == CosTwelfth(Twelfths(angle))

SinFix(angle) == CosTwelfth((Twelfths(angle) + 9) % 12)

\* Image.cos() and Image.sin().
Cos(img) ==
    IF ~img.ok THEN Err
    ELSE Img(img.names,
             [x \in Pixels |->
                [b \in DOMAIN img.names |->
                   IF IsData(img.vals[x][b]) THEN Val(CosFix(img.vals[x][b][1])) ELSE NoData]],
             img.date)

Sin(img) ==
    IF ~img.ok THEN Err
    ELSE Img(img.names,
             [x \in Pixels |->
                [b \in DOMAIN img.names |->
                   IF IsData(img.vals[x][b]) THEN Val(SinFix(img.vals[x][b][1])) ELSE NoData]],
             img.date)

\* ee.Image.constant(list): one band per element, named constant_0, constant_1, ...
ImageConstant(list) ==
    Img([i \in DOMAIN list |-> constantName \o <<"_">> \o Decimal(i - 1)],
        [x \in Pixels |-> [i \in DOMAIN list |-> Val(list[i] * Scale)]], NoDate)

\* addHarmonics(freqs)(image).
addHarmonics(freqs, image) ==
    LET frequencies == ImageConstant(freqs)
        time    == Select(image, <<tName>>)
        cosines == Rename(Cos(Multiply(time, frequencies)), cosNames(Len(freqs)))
        sines   == Rename(Sin(Multiply(time, frequencies)), sinNames(Len(freqs)))
    IN  AddBands(AddBands(image, cosines), sines)

----------------------------------------------------------------------------
(* Lines 121-165: the regression and the statistics derived from it.       *)

\* Lines 122-129.
HarmonicLandsat(scenes, k) ==
    LET kept == FilterDate(scenes, <<2013, 1, 1>>, <<2024, 1, 1>>)
    IN  [i \in DOMAIN kept |->
           addHarmonics(harmonicFrequencies(k),
                        addTime(addConstant(addNDVI(maskL8sr(kept[i])))))]

\* The inputs the linearRegression reducer receives at pixel x: the images in
\* which every selected band has data there.
RegressionInputs(c, x) ==
    SortedSeq({i \in DOMAIN c : \A b \in DOMAIN c[i].names : IsData(c[i].vals[x][b])})

\* A reducer that gives no pixel an answer once one pixel has too few inputs.
LinearRegressionAllOrNone(c, numX, answer) ==
    IF ~GoodCollection(c) \/ (c # <<>> /\ Len(c[1].names) # numX + 1) THEN Err
    ELSE Img(<<<<"c", "o", "e", "f", "f", "i", "c", "i", "e", "n", "t", "s">>>>,
             [x \in Pixels |->
                <<IF \E z \in Pixels : Len(RegressionInputs(c, z)) < numX THEN NoData
                  ELSE [r \in 1..numX |-> <<answer[x][r]>>]>>],
             NoDate)

\* ee.Reducer.linearRegression(numX, 1) over a collection whose images hold
\* numX independent bands followed by the dependent one: the numX x 1 array of
\* coefficients, and no data when there are fewer inputs than numX.  The least
\* squares solution itself is the platform's: answer[x] stands for it.
LinearRegression(c, numX, answer) ==
    IF ~GoodCollection(c) \/ (c # <<>> /\ Len(c[1].names) # numX + 1) THEN Err
    ELSE Img(<<<<"c", "o", "e", "f", "f", "i", "c", "i", "e", "n", "t", "s">>>>,
             [x \in Pixels |->
                <<IF Len(RegressionInputs(c, x)) < numX THEN NoData
                  ELSE [r \in 1..numX |-> <<answer[x][r]>>]>>],
             NoDate)

\* Lines 132-134.  The image's one band holds an array (or no data) per pixel.
HarmonicTrend(hl, k, answer) ==
    LinearRegression(SelectEach(hl, Append(independents(k), dependent)),
                     Len(independents(k)), answer)

\* arrayProject([0]).arrayFlatten([names]): one band per array element, named
\* by names; an error when the array's length is not the number of names.
ArrayFlatten(img, names) ==
    IF ~img.ok THEN Err
    ELSE IF \E x \in Pixels : IsData(img.vals[x][1]) /\ Len(img.vals[x][1]) # Len(names)
    THEN Err
    ELSE Img(names,
             [x \in Pixels |->
                [b \in DOMAIN names |->
                   IF IsData(img.vals[x][1]) THEN Val(img.vals[x][1][b][1]) ELSE NoData]],
             NoDate)

\* Lines 137-139.
Coefficients(trend, k) == ArrayFlatten(trend, independents(k))

\* The fitted band without the selection of the independent bands.
FittedBandUnselected(image, coefficients, k) ==
    Rename(ReduceSum(Multiply(image, coefficients)), <<fittedName>>)

\* Lines 143-147: the band the mapped function adds to one image.
FittedBand(image, coefficients, k) ==
    Rename(ReduceSum(Multiply(Select(image, independents(k)), coefficients)),
           <<fittedName>>)

\* Lines 142-148.
FittedHarmonic(hl, coefficients, k) ==
    [i \in DOMAIN hl |-> AddBands(hl[i], FittedBand(hl[i], coefficients, k))]

sinPattern == sinBase \o <<".">>
cosPattern == cosBase \o <<".">>

\* Lines 153-156.
WithAmplitude(htc, k) ==
    AddBands(htc,
             Rename(MultiplyBy(Hypot(Select(htc, <<sinPattern>>), Select(htc, <<cosPattern>>)), 5),
                    ampNames(k)))

\* Lines 159-161.
WithPhase(htc, k) ==
    AddBands(htc,
             Rename(UnitScale(Atan2(Select(htc, <<sinPattern>>), Select(htc, <<cosPattern>>)),
                              -MathPI, MathPI),
                    phaseNames(k)))

\* Lines 164-165.
WithMean(htc, hl) ==
    AddBands(htc, Rename(Mean(SelectEach(hl, <<dependent>>)), <<meanName>>))

----------------------------------------------------------------------------
(* Lines 177-205: the yearly composites and their stack.                   *)

YearFirst == 2013
YearLast == 2023

\* ee.List.sequence(2013, 2023).
stepList == [i \in 1..(YearLast - YearFirst + 1) |-> YearFirst + i - 1]

\* Lines 180-190: the function mapped over stepList.  The result is the
\* composite, its 'valid' property, and (for the collection built from the
\* list) its place in the list, which becomes its system:index.
Composite(fitted, year, place) ==
    LET startDate   == <<year, 6, 1>>
        endDate     == <<year, 9, 30>>
        composite_i == Median(FilterDate(fitted, startDate, endDate))
    IN  [image |-> IF composite_i.ok THEN [composite_i EXCEPT !.date = startDate] ELSE Err,
         valid |-> IF composite_i.names # <<>> THEN 1 ELSE 0,
         index |-> place - 1]

\* Lines 179-191.
FilterCollection(fitted) ==
    [i \in DOMAIN stepList |-> Composite(fitted, stepList[i], i)]

\* Lines 194-197: the collection of the list, filtered to valid = 1.
YearlyComposites(list) ==
    LET idx == SortedSeq({i \in DOMAIN list : list[i].valid = 1})
    IN  [j \in DOMAIN idx |-> list[idx[j]]]

\* ImageCollection.toBands(): the bands of every image in collection order,
\* each named <system:index>_<band>.
ToBands(c) ==
    IF \E i \in DOMAIN c : ~c[i].image.ok THEN Err
    ELSE Img(Flatten([i \in DOMAIN c |->
                        [b \in DOMAIN c[i].image.names |->
                           Decimal(c[i].index) \o <<"_">> \o c[i].image.names[b]]]),
             [x \in Pixels |-> Flatten([i \in DOMAIN c |-> c[i].image.vals[x]])],
             NoDate)

\* Line 199: yearlyComposites.select('fitted').
YearlyNDVI(c) == [i \in DOMAIN c |-> [c[i] EXCEPT !.image = Select(c[i].image, <<fittedName>>)]]

\* Line 202: "0_fitted" ... "10_fitted".
stackPatterns == [i \in 1..11 |-> Decimal(i - 1) \o <<"_">> \o fittedName]

\* The year labels one year late.
stackNamesShifted == [i \in 1..11 |-> Decimal(2013 + i)]

\* Line 203: "2013" ... "2023".
stackNames == [i \in 1..11 |-> Decimal(2012 + i)]

\* Lines 201-205.
OutImage(c) ==
    ToShort(MultiplyBy(SelectAs(ToBands(YearlyNDVI(c)), stackPatterns, stackNames), 10000))

\* Lines 240-241 (clipping to the geometry leaves the two pixels as they are).
Output(htc) == ToShort(MultiplyBy(htc, 10000))

----------------------------------------------------------------------------
(* The inputs.                                                             *)

\* What a pixel of a scene can look like: its QA_PIXEL and QA_RADSAT flags and
\* its red and near infrared counts.
Clear     == [qa |-> 0,  radsat |-> 0, b4 |-> 9000,  b5 |-> 20000]
Shadow    == [qa |-> 16, radsat |-> 0, b4 |-> 8000,  b5 |-> 9000]
Snow      == [qa |-> 32, radsat |-> 0, b4 |-> 30000, b5 |-> 28000]
Saturated == [qa |-> 0,  radsat |-> 2, b4 |-> 40000, b5 |-> 40000]
Dark      == [qa |-> 0,  radsat |-> 0, b4 |-> 7000,  b5 |-> 9000]

Looks == {Clear, Shadow, Snow, Saturated, Dark}

\* A scene on a date: pixel p looks as given, its neighbour q is clear.  The
\* near infrared count also grows with the month, so that scenes differ.
Scene(date, look) ==
    Img(sceneNames,
        [x \in Pixels |->
           LET l == IF x = "p" THEN look ELSE Clear
           IN  <<Val(l.b4), Val(l.b5 + 400 * date[2]), Val(l.qa), Val(l.radsat)>>],
        date)

\* The scenes on a set of dates, in date order.
Scenes(dates, lookOf) ==
    LET ords == SortedSeq({DateOrd(d) : d \in dates})
        at(o) == CHOOSE d \in dates : DateOrd(d) = o
    IN  [i \in DOMAIN ords |-> Scene(at(ords[i]), lookOf[at(ords[i])])]

\* The reducer's answer for k harmonics from four numbers: the constant, the
\* trend, and the cosine and sine coefficients of the first harmonic (harmonic i
\* gets the i-th part of them).
Answer(k, c0, ct, c, s) ==
    <<c0, ct>> \o [i \in 1..k |-> c \div i] \o [i \in 1..k |-> s \div i]

Unset == <<>>

InitRest ==
    /\ pc = "harmonicLandsat"
    /\ harmonicLandsat = Unset
    /\ harmonicTrend = Unset
    /\ harmonicTrendCoefficients = Unset
    /\ fittedHarmonic = Unset
    /\ filterCollection = Unset
    /\ yearlyComposites = Unset
    /\ outImage = Unset
    /\ output = Unset

\* Family 1: a few scenes around the borders of the composite window; in each,
\* pixel p is clear or looks the one other way chosen for the series.
SeriesDates ==
    {<<2013, 5, 31>>, <<2013, 6, 1>>, <<2013, 9, 29>>, <<2013, 9, 30>>,
     <<2014, 6, 1>>, <<2014, 9, 30>>}

InitSeries ==
    /\ harmonics \in 1..MaxFitHarmonics
    /\ \E dates \in SUBSET SeriesDates :
         /\ Cardinality(dates) \in 1..MaxScenes
         /\ \E other \in Looks \ {Clear} :
              \E lookOf \in [dates -> {Clear, other}] : landsat8Sr = Scenes(dates, lookOf)
    /\ solver = [x \in Pixels |->
                   IF x = "p" THEN Answer(harmonics, 15000, 15, 6000, 3000)
                   ELSE Answer(harmonics, 12000, 30, 3000, 3000)]
    /\ InitRest

\* Family 2: every year of the step list has one scene, inside the composite
\* window (July) or outside it (November); pixel p looks the same way in all.
Years == {stepList[i] : i \in DOMAIN stepList}

InitYears ==
    /\ harmonics = 1
    /\ \E inWindow \in SUBSET Years, look \in {Clear, Shadow} :
         landsat8Sr = Scenes({<<y, IF y \in inWindow THEN 7 ELSE 11, 15>> : y \in Years},
                             [d \in {<<y, m, 15>> : y \in Years, m \in {7, 11}} |-> look])
    /\ solver = [x \in Pixels |->
                   IF x = "p" THEN Answer(harmonics, 15000, 15, 6000, 3000)
                   ELSE Answer(harmonics, 12000, 30, 3000, 3000)]
    /\ InitRest

\* The first of the month for n months from January 2013.
MonthlyDates(n) == {<<2013 + ((i - 1) \div 12), 1 + ((i - 1) % 12), 1>> : i \in 1..n}

\* Family 3: any harmonic count, with clear scenes one fewer than, or as many
\* as, the regression has columns.
InitHarmonics ==
    /\ harmonics \in 1..MaxHarmonics
    /\ \E n \in {1 + 2 * harmonics, 2 + 2 * harmonics} :
         landsat8Sr = Scenes(MonthlyDates(n), [d \in MonthlyDates(n) |-> Clear])
    /\ solver = [x \in Pixels |->
                   IF x = "p" THEN Answer(harmonics, 15000, 15, 6000, 3000)
                   ELSE Answer(harmonics, 12000, 30, 3000, 3000)]
    /\ InitRest

\* Family 4: a clear July scene in every year, and any answer of the reducer
\* with the cosine and sine coefficients drawn from CoefficientValues.
CoefficientValues == {-21000, -3000, -2, 0, 2, 3000, 21000}

InitStats ==
    /\ harmonics = 1
    /\ landsat8Sr = Scenes({<<y, 7, 15>> : y \in Years}, [d \in {<<y, 7, 15>> : y \in Years} |-> Clear])
    /\ \E c \in CoefficientValues, s \in CoefficientValues, c0 \in {15000, 4 * Scale} :
         solver = [x \in Pixels |->
                     IF x = "p" THEN Answer(harmonics, c0, 15, c, s)
                     ELSE Answer(harmonics, 12000, 30, 3000, 3000)]
    /\ InitRest

----------------------------------------------------------------------------
(* The script's statements.                                                *)

Line122 ==
    /\ pc = "harmonicLandsat"
    /\ harmonicLandsat' = HarmonicLandsat(landsat8Sr, harmonics)
    /\ pc' = "harmonicTrend"
    /\ UNCHANGED <<harmonics, landsat8Sr, solver, harmonicTrend, harmonicTrendCoefficients,
                   fittedHarmonic, filterCollection, yearlyComposites, outImage, output>>

Line132 ==
    /\ pc = "harmonicTrend"
    /\ harmonicTrend' = HarmonicTrend(harmonicLandsat, harmonics, solver)
    /\ pc' = "harmonicTrendCoefficients"
    /\ UNCHANGED <<harmonics, landsat8Sr, solver, harmonicLandsat, harmonicTrendCoefficients,
                   fittedHarmonic, filterCollection, yearlyComposites, outImage, output>>

Line137 ==
    /\ pc = "harmonicTrendCoefficients"
    /\ harmonicTrendCoefficients' = Coefficients(harmonicTrend, harmonics)
    /\ pc' = "fittedHarmonic"
    /\ UNCHANGED <<harmonics, landsat8Sr, solver, harmonicLandsat, harmonicTrend,
                   fittedHarmonic, filterCollection, yearlyComposites, outImage, output>>

\* The mapped function runs here, on the variable's value at this statement.
Line142 ==
    /\ pc = "fittedHarmonic"
    /\ fittedHarmonic' = FittedHarmonic(harmonicLandsat, harmonicTrendCoefficients, harmonics)
    /\ pc' = "amplitude"
    /\ UNCHANGED <<harmonics, landsat8Sr, solver, harmonicLandsat, harmonicTrend,
                   harmonicTrendCoefficients, filterCollection, yearlyComposites, outImage,
                   output>>

Line153 ==
    /\ pc = "amplitude"
    /\ harmonicTrendCoefficients' = WithAmplitude(harmonicTrendCoefficients, harmonics)
    /\ pc' = "phase"
    /\ UNCHANGED <<harmonics, landsat8Sr, solver, harmonicLandsat, harmonicTrend,
                   fittedHarmonic, filterCollection, yearlyComposites, outImage, output>>

Line159 ==
    /\ pc = "phase"
    /\ harmonicTrendCoefficients' = WithPhase(harmonicTrendCoefficients, harmonics)
    /\ pc' = "mean"
    /\ UNCHANGED <<harmonics, landsat8Sr, solver, harmonicLandsat, harmonicTrend,
                   fittedHarmonic, filterCollection, yearlyComposites, outImage, output>>

Line164 ==
    /\ pc = "mean"
    /\ harmonicTrendCoefficients' = WithMean(harmonicTrendCoefficients, harmonicLandsat)
    /\ pc' = "filterCollection"
    /\ UNCHANGED <<harmonics, landsat8Sr, solver, harmonicLandsat, harmonicTrend,
                   fittedHarmonic, filterCollection, yearlyComposites, outImage, output>>

Line179 ==
    /\ pc = "filterCollection"
    /\ filterCollection' = FilterCollection(fittedHarmonic)
    /\ pc' = "yearlyComposites"
    /\ UNCHANGED <<harmonics, landsat8Sr, solver, harmonicLandsat, harmonicTrend,
                   harmonicTrendCoefficients, fittedHarmonic, yearlyComposites, outImage,
                   output>>

Line194 ==
    /\ pc = "yearlyComposites"
    /\ yearlyComposites' = YearlyComposites(filterCollection)
    /\ pc' = "outImage"
    /\ UNCHANGED <<harmonics, landsat8Sr, solver, harmonicLandsat, harmonicTrend,
                   harmonicTrendCoefficients, fittedHarmonic, filterCollection, outImage,
                   output>>

Line201 ==
    /\ pc = "outImage"
    /\ outImage' = OutImage(yearlyComposites)
    /\ pc' = "output"
    /\ UNCHANGED <<harmonics, landsat8Sr, solver, harmonicLandsat, harmonicTrend,
                   harmonicTrendCoefficients, fittedHarmonic, filterCollection,
                   yearlyComposites, output>>

Line240 ==
    /\ pc = "output"
    /\ output' = Output(harmonicTrendCoefficients)
    /\ pc' = "done"
    /\ UNCHANGED <<harmonics, landsat8Sr, solver, harmonicLandsat, harmonicTrend,
                   harmonicTrendCoefficients, fittedHarmonic, filterCollection,
                   yearlyComposites, outImage>>

Next ==
    \/ Line122 \/ Line132 \/ Line137 \/ Line142 \/ Line153 \/ Line159
    \/ Line164 \/ Line179 \/ Line194 \/ Line201 \/ Line240

SpecSeries == InitSeries /\ [][Next]_vars

SpecYears == InitYears /\ [][Next]_vars

SpecHarmonics == InitHarmonics /\ [][Next]_vars

SpecStats == InitStats /\ [][Next]_vars

----------------------------------------------------------------------------
(* The claims.                                                             *)

\* How often a band name occurs in an image.
Count(img, name) == Cardinality({i \in DOMAIN img.names : img.names[i] = name})

\* Pixel x's value in the band of that name.
Band(img, name, x) == img.vals[x][CHOOSE i \in DOMAIN img.names : img.names[i] = name]

\* [constant, t, cos_1..cos_k, sin_1..sin_k], written out.
ExpectedColumns(k) ==
    [j \in 1..(2 + 2 * k) |->
       IF j = 1 THEN <<"c", "o", "n", "s", "t", "a", "n", "t">>
       ELSE IF j = 2 THEN <<"t">>
       ELSE IF j <= 2 + k THEN <<"c", "o", "s", "_">> \o Decimal(j - 2)
       ELSE <<"s", "i", "n", "_">> \o Decimal(j - 2 - k)]

\* The scenes the script keeps (2013-01-01 up to 2024-01-01) in which pixel x
\* has an NDVI value.
WithNDVI(x) ==
    {i \in DOMAIN harmonicLandsat : IsData(Band(harmonicLandsat[i], dependent, x))}

C7_FittedIsDotProduct ==
    pc \notin {"harmonicLandsat", "harmonicTrend", "harmonicTrendCoefficients", "fittedHarmonic"} =>
      LET want == ExpectedColumns(harmonics)
      IN  /\ Len(fittedHarmonic) = Len(harmonicLandsat)
          /\ \A i \in DOMAIN fittedHarmonic :
               /\ fittedHarmonic[i].ok
               /\ fittedHarmonic[i].names = Append(harmonicLandsat[i].names, fittedName)
               /\ \A x \in Pixels :
                    Band(fittedHarmonic[i], fittedName, x) =
                      IF ~IsData(harmonicTrend.vals[x][1]) THEN NoData
                      ELSE Val(SumSeq([j \in DOMAIN want |->
                                 MulFix(Band(harmonicLandsat[i], want[j], x)[1],
                                        harmonicTrend.vals[x][1][j][1])]))

C7_Witness ==
    /\ pc = "done"
    /\ harmonics >= 3
    /\ harmonicTrendCoefficients.ok
    /\ Len(harmonicTrendCoefficients.names) > 2 + 2 * harmonics
    /\ \E i \in DOMAIN fittedHarmonic : IsData(Band(fittedHarmonic[i], fittedName, "p"))

\* C8: for every harmonic count k and every i in 1..k the coefficient image
\* gets exactly one band amplitude_i and one band phase_i, each computed from
\* the coefficients sin_i and cos_i of the same i; also for k >= 10.
C8_OneAmplitudeAndPhasePerHarmonic ==
    pc = "mean" =>
      /\ harmonicTrendCoefficients.ok
      /\ \A i \in 1..harmonics :
           LET sin_i == sinBase \o Decimal(i)
               cos_i == cosBase \o Decimal(i)
               amp_i == ampBase \o Decimal(i)
               pha_i == phaseBase \o Decimal(i)
           IN  /\ Count(harmonicTrendCoefficients, amp_i) = 1
               /\ Count(harmonicTrendCoefficients, pha_i) = 1
               /\ \A x \in Pixels :
                    LET s == Band(harmonicTrendCoefficients, sin_i, x)
                        c == Band(harmonicTrendCoefficients, cos_i, x)
                    IN  /\ IsData(s) /\ IsData(c) =>
                             Band(harmonicTrendCoefficients, amp_i, x)
                               = Val(5 * Isqrt(s[1] * s[1] + c[1] * c[1]))
                        /\ IsData(Band(harmonicTrendCoefficients, pha_i, x)) = (IsData(s) /\ IsData(c))

\* Whether date d lies in year y's composite window: on or after June 1 and
\* before September 30 of y.
InWindow(d, y) == d[1] = y /\ (d[2] \in {6, 7, 8} \/ (d[2] = 9 /\ d[3] <= 29))

\* The years that have a scene in their window, ascending.
YearsWithScenes ==
    SortedSeq({y \in YearFirst..YearLast :
                 \E i \in DOMAIN landsat8Sr : InWindow(landsat8Sr[i].date, y)})

\* The fitted values pixel x has over the images of fittedHarmonic in year y's
\* window.
WindowFitted(y, x) ==
    LET idx == SortedSeq({i \in DOMAIN fittedHarmonic :
                            /\ InWindow(fittedHarmonic[i].date, y)
                            /\ IsData(Band(fittedHarmonic[i], fittedName, x))})
    IN  [j \in DOMAIN idx |-> Band(fittedHarmonic[idx[j]], fittedName, x)[1]]

\* n * 10000 / Scale with the fraction dropped, kept in 16 bits: v * 10000 cast.
Truncated(n) ==
    LET a == n * 10000
        t == IF a >= 0 THEN a \div Scale ELSE -((-a) \div Scale)
    IN  IF t < -32768 THEN -32768 ELSE IF t > 32767 THEN 32767 ELSE t

\* n * 10000 / Scale rounded to the nearest whole number, kept in 16 bits.
Rounded(n) ==
    LET a == n * 10000
        m == IF a >= 0 THEN a ELSE -a
        r == (m \div Scale) + (IF 2 * (m % Scale) >= Scale THEN 1 ELSE 0)
        t == IF a >= 0 THEN r ELSE -r
    IN  IF t < -32768 THEN -32768 ELSE IF t > 32767 THEN 32767 ELSE t

\* C1: a year whose window has no scene is dropped from the stack, so the
\* stacked output is built and its bands are exactly the years that have a
\* scene in their window, in their original order.
C1_EmptyYearsDropped ==
    pc \in {"output", "done"} =>
      /\ outImage.ok
      /\ outImage.names = [j \in DOMAIN YearsWithScenes |-> Decimal(YearsWithScenes[j])]

C10_WindowIsJuneToSeptember ==
    pc \in {"yearlyComposites", "outImage", "output", "done"} =>
      /\ Len(filterCollection) = YearLast - YearFirst + 1
      /\ \A n \in DOMAIN filterCollection :
           LET y    == YearFirst + n - 1
               comp == filterCollection[n]
           IN  /\ comp.image.date = <<y, 6, 1>>
               /\ IF \E i \in DOMAIN fittedHarmonic : InWindow(fittedHarmonic[i].date, y)
                  THEN /\ comp.valid = 1
                       /\ \A x \in Pixels :
                            Band(comp.image, fittedName, x) = MedianOf(WindowFitted(y, x))
                  ELSE comp.valid = 0 /\ comp.image.names = <<>>

C10_Witness ==
    /\ pc = "done"
    /\ \E i \in DOMAIN fittedHarmonic : fittedHarmonic[i].date = <<2013, 9, 30>>
    /\ \E i \in DOMAIN fittedHarmonic : fittedHarmonic[i].date = <<2013, 9, 29>>
    /\ \E i \in DOMAIN fittedHarmonic : fittedHarmonic[i].date = <<2013, 6, 1>>
    /\ IsData(Band(filterCollection[1].image, fittedName, "p"))

\* The raw scene that image i of harmonicLandsat was made from.
RawAt(i) ==
    landsat8Sr[CHOOSE j \in DOMAIN landsat8Sr : landsat8Sr[j].date = harmonicLandsat[i].date]

\* Whether scene i is flagged at pixel x: one of the low five QA_PIXEL bits is
\* set, or QA_RADSAT is not zero.
Flagged(i, x) ==
    \/ Band(RawAt(i), qaPixelName, x)[1] % 32 # 0
    \/ Band(RawAt(i), qaRadsatName, x)[1] # 0

\* Whether a reflectance of scene i is negative at pixel x:
\* DN * 0.0000275 - 0.2 < 0 for the red or the near infrared band.
NegativeReflectance(i, x) ==
    \/ Band(RawAt(i), b4Name, x)[1] * 275 < 2000000
    \/ Band(RawAt(i), b5Name, x)[1] * 275 < 2000000

Unflagged(x) == {i \in DOMAIN harmonicLandsat : ~Flagged(i, x)}

\* The observations of pixel x that are neither flagged nor negative.
Valid(x) == {i \in Unflagged(x) : ~NegativeReflectance(i, x)}

\* The NDVI values pixel x has over a set of scenes.
NDVIOver(set, x) ==
    LET idx == SortedSeq({i \in set : IsData(Band(harmonicLandsat[i], dependent, x))})
    IN  [j \in DOMAIN idx |-> Band(harmonicLandsat[idx[j]], dependent, x)[1]]

\* The fitted values pixel x has in year y's window over a set of scenes.
WindowFittedOver(set, y, x) ==
    LET idx == SortedSeq({i \in set : /\ InWindow(fittedHarmonic[i].date, y)
                                      /\ IsData(Band(fittedHarmonic[i], fittedName, x))})
    IN  [j \in DOMAIN idx |-> Band(fittedHarmonic[idx[j]], fittedName, x)[1]]

\* What pixel x's own series makes of coefficient band j: the reducer's answer
\* for x, or no data when x has fewer valid observations than columns.
OwnCoefficient(x, j) ==
    IF Cardinality(Valid(x)) < 2 + 2 * harmonics THEN NoData ELSE Val(solver[x][j])

\* Whether every band of the coefficient output has, at pixel x, the data that
\* x's own series gives it, whatever the other pixel's series is.
OwnOutputs(x) ==
    /\ \A j \in 1..(2 + 2 * harmonics) :
         /\ harmonicTrendCoefficients.vals[x][j] = OwnCoefficient(x, j)
         /\ IsData(output.vals[x][j]) <=> IsData(OwnCoefficient(x, j))
    /\ \A i \in 1..harmonics :
         /\ IsData(Band(harmonicTrendCoefficients, ampNames(harmonics)[i], x))
              <=> Cardinality(Valid(x)) >= 2 + 2 * harmonics
         /\ IsData(Band(harmonicTrendCoefficients, phaseNames(harmonics)[i], x))
              <=> Cardinality(Valid(x)) >= 2 + 2 * harmonics
    /\ Band(harmonicTrendCoefficients, meanName, x) = MeanOf(NDVIOver(Valid(x), x))

\* C3 as stated: a pixel with fewer valid observations than 2+2k has no data in
\* every band of the coefficient output, NDVI_mean included, and every pixel's
\* values are those its own series gives, whatever the other pixel's series is.
C3_AllBandsNoData ==
    pc = "done" =>
      /\ \A x \in Pixels :
           Cardinality(Valid(x)) < 2 + 2 * harmonics =>
             \A b \in DOMAIN harmonicTrendCoefficients.names :
                /\ harmonicTrendCoefficients.vals[x][b] = NoData
                /\ output.vals[x][b] = NoData
      /\ \A x \in Pixels : OwnOutputs(x)

\* C3: a pixel with fewer valid observations than 2+2k has no data in the
\* coefficient bands and in every amplitude_i and phase_i; its NDVI_mean is the
\* mean of the NDVI values it does have and is no data only when it has none;
\* every pixel's values are those its own series gives, whatever the other
\* pixel's series is.
C3_CoefficientBandsNoData ==
    pc = "done" =>
      /\ \A x \in Pixels :
           Cardinality(Valid(x)) < 2 + 2 * harmonics =>
             /\ \A b \in DOMAIN harmonicTrendCoefficients.names :
                  harmonicTrendCoefficients.names[b] # meanName =>
                    /\ harmonicTrendCoefficients.vals[x][b] = NoData
                    /\ output.vals[x][b] = NoData
             /\ Band(harmonicTrendCoefficients, meanName, x) = MeanOf(NDVIOver(Valid(x), x))
             /\ IsData(Band(harmonicTrendCoefficients, meanName, x)) <=> Valid(x) # {}
      /\ \A x \in Pixels : OwnOutputs(x)

C3_Witness ==
    /\ pc = "done"
    /\ Valid("p") # {}
    /\ Cardinality(Valid("p")) < 2 + 2 * harmonics
    /\ Cardinality(Valid("q")) >= 2 + 2 * harmonics
    /\ IsData(Band(harmonicTrendCoefficients, meanName, "p"))
    /\ ~IsData(Band(harmonicTrendCoefficients, constantName, "p"))
    /\ IsData(Band(harmonicTrendCoefficients, constantName, "q"))

\* C9 as stated: an observation has no data exactly when it is flagged, and only
\* the unflagged observations enter the regression, the NDVI mean and the
\* yearly median of fitted values.
C9_MaskedObservationsAbsent ==
    pc = "done" =>
      \A x \in Pixels :
        /\ \A i \in DOMAIN harmonicLandsat :
             IsData(Band(harmonicLandsat[i], dependent, x)) <=> ~Flagged(i, x)
        /\ \A j \in 1..(2 + 2 * harmonics) :
             harmonicTrendCoefficients.vals[x][j] =
               IF Cardinality(Unflagged(x)) < 2 + 2 * harmonics THEN NoData
               ELSE Val(solver[x][j])
        /\ Band(harmonicTrendCoefficients, meanName, x) = MeanOf(NDVIOver(Unflagged(x), x))
        /\ \A n \in DOMAIN filterCollection :
             filterCollection[n].valid = 1 =>
               Band(filterCollection[n].image, fittedName, x)
                 = MedianOf(WindowFittedOver(Unflagged(x), YearFirst + n - 1, x))

\* C9: the cloud mask removes all bands of an observation exactly when it is
\* flagged; NDVI has no data when the observation is flagged or a reflectance is
\* negative; only the observations with NDVI enter the regression and the NDVI
\* mean, never as zero; the fitted value is computed for every observation of
\* a fitted pixel, flagged ones included, and all of them enter the yearly median.
C9_MaskedAbsentFromRegression ==
    pc = "done" =>
      \A x \in Pixels :
        /\ \A i \in DOMAIN harmonicLandsat :
             /\ (\A b \in DOMAIN sceneNames : harmonicLandsat[i].vals[x][b] = NoData)
                  <=> Flagged(i, x)
             /\ IsData(Band(harmonicLandsat[i], dependent, x)) <=> i \in Valid(x)
             /\ IsData(Band(fittedHarmonic[i], fittedName, x))
                  <=> Cardinality(Valid(x)) >= 2 + 2 * harmonics
        /\ \A j \in 1..(2 + 2 * harmonics) :
             harmonicTrendCoefficients.vals[x][j] =
               IF Cardinality(Valid(x)) < 2 + 2 * harmonics THEN NoData
               ELSE Val(solver[x][j])
        /\ Band(harmonicTrendCoefficients, meanName, x) = MeanOf(NDVIOver(Valid(x), x))
        /\ \A n \in DOMAIN filterCollection :
             filterCollection[n].valid = 1 =>
               Band(filterCollection[n].image, fittedName, x)
                 = MedianOf(WindowFittedOver(DOMAIN fittedHarmonic, YearFirst + n - 1, x))

C9_Witness ==
    /\ pc = "done"
    /\ Cardinality(Valid("p")) >= 2 + 2 * harmonics
    /\ \E i \in DOMAIN harmonicLandsat :
         /\ Flagged(i, "p")
         /\ InWindow(harmonicLandsat[i].date, YearFirst)
         /\ IsData(Band(fittedHarmonic[i], fittedName, "p"))
         /\ Band(harmonicLandsat[i], b4Name, "p") = NoData
    /\ Band(filterCollection[1].image, fittedName, "p")
         # MedianOf(WindowFittedOver(Unflagged("p"), YearFirst, "p"))

\* C4 as stated: every stored value of the two exported rasters is v * 10000
\* rounded to the nearest integer and kept in [-32768, 32767], and decodes to
\* within 0.0001 of v when v * 10000 is inside that range.
C4_StoredIsRounded ==
    pc = "done" =>
      \A x \in Pixels :
        /\ \A b \in DOMAIN harmonicTrendCoefficients.names :
             \A e \in DOMAIN harmonicTrendCoefficients.vals[x][b] :
                output.vals[x][b][e] = Rounded(harmonicTrendCoefficients.vals[x][b][e]) * Scale
        /\ \A n \in DOMAIN outImage.names :
             \A e \in DOMAIN Band(yearlyComposites[n].image, fittedName, x) :
                outImage.vals[x][n][e] = Rounded(Band(yearlyComposites[n].image, fittedName, x)[e]) * Scale

\* Whether the stored value out (Scale times the short) is right for the band
\* value n: the short is n * 10000 / Scale cut toward zero and kept in 16 bits,
\* and within one unit (0.0001) of it when nothing is clamped.
StoredRight(n, out) ==
    /\ out = Truncated(n) * Scale
    /\ (n * 10000 >= -32768 * Scale /\ n * 10000 <= 32767 * Scale) =>
         /\ out - n * 10000 < Scale
         /\ n * 10000 - out < Scale

\* C4: every stored value of the two exported rasters is v * 10000 with the
\* fraction cut off (toward zero, not rounded), kept in [-32768, 32767]; it
\* decodes to within 0.0001 of v when v * 10000 is inside that range.  This
\* covers every band, the amplitude bands with their factor 5 included.
C4_StoredIsTruncated ==
    pc = "done" =>
      /\ output.ok /\ outImage.ok
      /\ output.names = harmonicTrendCoefficients.names
      /\ \A x \in Pixels :
           /\ \A b \in DOMAIN harmonicTrendCoefficients.names :
                /\ DOMAIN output.vals[x][b] = DOMAIN harmonicTrendCoefficients.vals[x][b]
                /\ \A e \in DOMAIN harmonicTrendCoefficients.vals[x][b] :
                     StoredRight(harmonicTrendCoefficients.vals[x][b][e], output.vals[x][b][e])
           /\ \A n \in DOMAIN outImage.names :
                /\ DOMAIN outImage.vals[x][n] = DOMAIN Band(yearlyComposites[n].image, fittedName, x)
                /\ \A e \in DOMAIN Band(yearlyComposites[n].image, fittedName, x) :
                     StoredRight(Band(yearlyComposites[n].image, fittedName, x)[e], outImage.vals[x][n][e])

C4_Witness ==
    /\ pc = "done"
    /\ Band(harmonicTrendCoefficients, cosNames(1)[1], "p") = Val(-2)
    /\ Band(output, cosNames(1)[1], "p") = Val(0)
    /\ Band(output, constantName, "p") = Val(32767 * Scale)
    /\ IsData(Band(output, ampNames(1)[1], "p"))
    /\ IsData(outImage.vals["p"][1])

\* C5: for coefficients sin_i and cos_i that are not both zero, phase_i lies in
\* [0, 1], and sin_i = 0 with cos_i > 0 gives phase_i = 0.5.
C5_PhaseRange ==
    pc = "done" =>
      \A x \in Pixels : \A i \in 1..harmonics :
        LET s  == Band(harmonicTrendCoefficients, sinNames(harmonics)[i], x)
            c  == Band(harmonicTrendCoefficients, cosNames(harmonics)[i], x)
            ph == Band(harmonicTrendCoefficients, phaseNames(harmonics)[i], x)
        IN  (IsData(s) /\ IsData(c) /\ ~(s[1] = 0 /\ c[1] = 0)) =>
              /\ IsData(ph)
              /\ \A e \in DOMAIN ph : 0 <= ph[e] /\ ph[e] <= Scale
              /\ (s[1] = 0 /\ c[1] > 0) => ph = Val(Scale \div 2)

====
